---- MODULE Spec2Model ----
(***************************************************************************)
(* Transfer status synchronisation of the Zenobia Pay UI components.       *)
(*                                                                         *)
(* Two components are modelled, selected by `variant`:                     *)
(*   "modal"  - ZenobiaPaymentModal of src/src/index-bundle.tsx (114-408)  *)
(*   "button" - ZenobiaPaymentButton of src/unnamed/part_005 (76-282 and   *)
(*              the close handlers 664-691)                                *)
(*   "modalB" - the second ZenobiaPaymentModal of                          *)
(*              src/src/components/ZenobiaPaymentModal.tsx (349-559), which *)
(*              has no effect for closing                                  *)
(*   "buttonTooltip" - the third ZenobiaPaymentButton of                   *)
(*              src/src/components/ZenobiaPaymentButton.tsx (651-918),     *)
(*              which keeps IN_FLIGHT as a status of its own               *)
(*   "buttonPopup" - ZenobiaPaymentButton of src/unnamed/part_007 with the *)
(*              first ZenobiaPaymentModal of                               *)
(*              src/src/components/ZenobiaPaymentModal.tsx (31-346) that   *)
(*              it renders                                                 *)
(* Each component instance is one synchronisation session.  A client is a  *)
(* ZenobiaClient object; clients are numbered in order of construction and *)
(* 0 stands for null.  Transfers are numbered too, 0 stands for null.      *)
(* All optional UI callbacks (onSuccess, onError, onStatusChange) are      *)
(* taken to be registered.                                                 *)
(***************************************************************************)
EXTENDS Integers, Sequences, FiniteSets, TLC

\* Bound on the number of ZenobiaClient objects one session constructs.
MaxClients == 2

\* The same bound where connectivity and channel-error events are modelled.
MaxConnClients == 1

\* The same bound where connectivity changes alone are modelled.
MaxReconnectClients == 2

\* Bound on the clicks, and on the clients, of the popup button.
MaxPopupClients == 2

\* The same bound where a third attempt of the modal is modelled.
MaxRetryClients == 3

Max2(a, b) == IF a > b THEN a ELSE b

\* The largest of the bounds on clients.
MaxAnyClients ==
  Max2(Max2(MaxClients, MaxConnClients),
       Max2(MaxRetryClients, MaxReconnectClients))

Clients == 1..MaxAnyClients

\* The identifier of props.transferRequest when the host supplies one.
PropTransferId == 1

\* The identifier the merchant endpoint returns for the creation issued by
\* client c: server-assigned and unique per creation.
ServerId(c) == c + 1

\* Raw status strings a channel can deliver: the five recognised values and
\* representatives of "anything else" (unknown, empty, differently cased).
RawStatuses ==
  {"PENDING", "IN_FLIGHT", "COMPLETED", "FAILED", "CANCELLED",
   "UNKNOWN", "", "completed"}

\* enum TransferStatus
TransferStatus == {"PENDING", "IN_FLIGHT", "COMPLETED", "FAILED", "CANCELLED"}

Terminal == {"COMPLETED", "FAILED", "CANCELLED"}

\* Channel error messages delivered to handleWebSocketError: each of the four
\* phrases in some case, and messages that contain none of them.
ErrorMessages ==
  {"WebSocket disconnected", "Invalid message", "Connection Lost",
   "NETWORK ERROR", "Request Timeout", "Time out"}

\* The characters of a message or of a phrase.
Chars(m) ==
  CASE m = "WebSocket disconnected" ->
         <<"W", "e", "b", "S", "o", "c", "k", "e", "t", " ", "d",
           "i", "s", "c", "o", "n", "n", "e", "c", "t", "e", "d">>
    [] m = "Invalid message" ->
         <<"I", "n", "v", "a", "l", "i", "d",
           " ", "m", "e", "s", "s", "a", "g", "e">>
    [] m = "Connection Lost" ->
         <<"C", "o", "n", "n", "e", "c", "t",
           "i", "o", "n", " ", "L", "o", "s", "t">>
    [] m = "NETWORK ERROR" ->
         <<"N", "E", "T", "W", "O", "R",
           "K", " ", "E", "R", "R", "O", "R">>
    [] m = "Request Timeout" ->
         <<"R", "e", "q", "u", "e", "s", "t",
           " ", "T", "i", "m", "e", "o", "u", "t">>
    [] m = "Time out" -> <<"T", "i", "m", "e", " ", "o", "u", "t">>
    [] m = "disconnect" ->
         <<"d", "i", "s", "c", "o", "n", "n", "e", "c", "t">>
    [] m = "connection lost" ->
         <<"c", "o", "n", "n", "e", "c", "t",
           "i", "o", "n", " ", "l", "o", "s", "t">>
    [] m = "network error" ->
         <<"n", "e", "t", "w", "o", "r",
           "k", " ", "e", "r", "r", "o", "r">>
    [] m = "timeout" -> <<"t", "i", "m", "e", "o", "u", "t">>

UpperLetters ==
  <<"A", "B", "C", "D", "E", "F", "G", "H", "I", "J", "K", "L", "M",
    "N", "O", "P", "Q", "R", "S", "T", "U", "V", "W", "X", "Y", "Z">>

LowerLetters ==
  <<"a", "b", "c", "d", "e", "f", "g", "h", "i", "j", "k", "l", "m",
    "n", "o", "p", "q", "r", "s", "t", "u", "v", "w", "x", "y", "z">>

\* String.prototype.toLowerCase on a sequence of characters.
toLowerCase(s) ==
  [i \in 1..Len(s) |->
     IF \E k \in DOMAIN UpperLetters : UpperLetters[k] = s[i]
     THEN LowerLetters[CHOOSE k \in DOMAIN UpperLetters : UpperLetters[k] = s[i]]
     ELSE s[i]]

\* String.prototype.includes on sequences of characters.
includes(s, sub) ==
  \E i \in 0..(Len(s) - Len(sub)) : \A j \in 1..Len(sub) : s[i + j] = sub[j]

\* The signature field of a record: absent, empty or a signature.
Signatures == {"undefined", "", "sig-1"}

VARIABLES
  variant,          \* which component this session is
  mounted,          \* the component has not been disposed
  isOpen,           \* props.isOpen (modal)
  propsTransferRequest, \* props.transferRequest: a transfer id or 0 (modal)
  propsUrl,         \* props.url is a non-empty string
  animationState,   \* button: AnimationState
  timers,           \* button: number of pending 300 ms animation timers
  isClosing,        \* popup button: signal isClosing
  resetTimers,      \* popup button: pending 50 ms timers of handleClose,
                    \* oldest first, each with the number of clicks made
                    \* before the close that set it
  closingTimers,    \* popup button: pending 300 ms timers of handleClose
  loading,          \* isLoading (modal) / loading (button)
  zenobiaClient,    \* signal zenobiaClient: a client or 0
  transferRequest,  \* signal transferRequest: a transfer id or 0
  transferStatus,   \* signal transferStatus
  error,            \* signal error: "null" or a message
  isConnected,      \* signal isConnected
  isReconnecting,   \* signal isReconnecting (modal)
  websocketError,   \* signal websocketError (modal): "null" or a message
  nextClient,       \* number of clients constructed so far
  clientLimit,      \* bound on nextClient in this behaviour
  pending,          \* per client: phase of its create request
  chan,             \* per client: transfer its open channel listens to, or 0
  disc,             \* per client: number of disconnect() calls (capped at 2)
  calls,            \* calls made by the last handler, in order
  termSeen,         \* transfers for which a terminal status has been derived
  succ,             \* per transfer: number of onSuccess calls (capped at 2)
  signature,        \* the signature field of the records of this behaviour
  recordSignature,  \* signature field of transferRequest(), "none" without one
  scenario          \* <<n, c>>: the last n steps were the first n events of
                    \* "disconnected, connected, IN_FLIGHT" on client c;
                    \* <<4, c>>: the last step was an IN_FLIGHT event on
                    \* client c of the tooltip button; <<5, c>>: the last
                    \* two were IN_FLIGHT and a terminal event on c

\* The QR effect of a component (spec section 4.1, the Identifier Codec).
VARIABLES
  qrComponent,      \* the component whose QR effect this is
  qrTransferId,     \* transferRequest().transferRequestId, as characters
  qrHasMerchantId,  \* transferRequest().merchantId is a non-empty string
  qrIsTest,         \* props.isTest (modal)
  qrPayload,        \* base64TransferId, as characters
  qrString,         \* qrString, as characters
  qrOutcome         \* "none" before the effect ran, then "generated" or
                    \* "skipped" (or the name of an error)

codecVars ==
  <<qrComponent, qrTransferId, qrHasMerchantId, qrIsTest, qrPayload, qrString,
    qrOutcome>>

\* One call of a request function of the client package
\* (src/node_modules/@zenobia/client/src/api.ts and zenobiaClient.ts).
VARIABLES
  apiFunction,      \* the function called: "createTransfer" or "createPayment"
  apiResponse,      \* what the fetch of this call will be answered with
  apiPhase,         \* "idle", "fetching" or "settled"
  apiRequests,      \* number of fetch calls made
  apiResult         \* how the returned promise settled

apiVars == <<apiFunction, apiResponse, apiPhase, apiRequests, apiResult>>

\* One call of pollTransferStatus
\* (src/node_modules/@zenobia/client/src/poll.ts).
VARIABLES
  pollInterval,     \* the argument interval, OmittedInterval when not given
  pollPhase,        \* "idle", "fetching", "waiting" or "returned"
  pollFetches,      \* number of fetch calls made
  pollOutstanding,  \* number of fetches not yet answered
  pollTimers,       \* number of setTimeout calls made
  pollDelay,        \* delay of the pending timer, NoTimer when none is pending
  pollClock,        \* time in ms since the call (fetches take no time)
  pollFetchedAt,    \* pollClock at the last fetch
  pollLast,         \* the answer to the last fetch, "none" before it
  pollResult,       \* "pending", "resolved" or "rejected"
  pollStopped       \* the session that called has been stopped

pollVars ==
  <<pollInterval, pollPhase, pollFetches, pollOutstanding, pollTimers,
    pollDelay, pollClock, pollFetchedAt, pollLast, pollResult, pollStopped>>

sessionVars ==
  <<variant, mounted, isOpen, propsTransferRequest, propsUrl, animationState,
    timers, loading, zenobiaClient, transferRequest, transferStatus, error,
    isConnected, isReconnecting, websocketError, nextClient, clientLimit,
    pending, chan, disc, calls, termSeen, succ, signature, recordSignature,
    scenario, isClosing, resetTimers, closingTimers>>

vars == <<sessionVars, codecVars, apiVars, pollVars>>

Transfers == 1..(MaxAnyClients + 1)

Inc2(n) == IF n < 2 THEN n + 1 ELSE 2

(***************************************************************************)
(* The mutable part of the session as a record, so that a handler is the   *)
(* composition of the statements it executes.                              *)
(***************************************************************************)
Cur ==
  [isOpen |-> isOpen, animationState |-> animationState, timers |-> timers,
   loading |-> loading, zenobiaClient |-> zenobiaClient,
   transferRequest |-> transferRequest, transferStatus |-> transferStatus,
   error |-> error, isConnected |-> isConnected,
   isReconnecting |-> isReconnecting, websocketError |-> websocketError,
   nextClient |-> nextClient, pending |-> pending, chan |-> chan,
   disc |-> disc, calls |-> <<>>, termSeen |-> termSeen, succ |-> succ,
   mounted |-> mounted, recordSignature |-> recordSignature,
   scenario |-> <<0, 0>>, isClosing |-> isClosing,
   resetTimers |-> resetTimers, closingTimers |-> closingTimers,
   ok |-> TRUE]

Commit(r) ==
  /\ r.ok
  /\ isOpen' = r.isOpen
  /\ animationState' = r.animationState
  /\ timers' = r.timers
  /\ loading' = r.loading
  /\ zenobiaClient' = r.zenobiaClient
  /\ transferRequest' = r.transferRequest
  /\ transferStatus' = r.transferStatus
  /\ error' = r.error
  /\ isConnected' = r.isConnected
  /\ isReconnecting' = r.isReconnecting
  /\ websocketError' = r.websocketError
  /\ nextClient' = r.nextClient
  /\ pending' = r.pending
  /\ chan' = r.chan
  /\ disc' = r.disc
  /\ calls' = r.calls
  /\ termSeen' = r.termSeen
  /\ succ' = r.succ
  /\ mounted' = r.mounted
  /\ recordSignature' = r.recordSignature
  /\ scenario' = r.scenario
  /\ isClosing' = r.isClosing
  /\ resetTimers' = r.resetTimers
  /\ closingTimers' = r.closingTimers
  /\ UNCHANGED <<variant, propsTransferRequest, propsUrl, clientLimit,
                 signature>>
  /\ UNCHANGED <<codecVars, apiVars, pollVars>>

Call(r, c) == [r EXCEPT !.calls = Append(@, c)]

(***************************************************************************)
(* The channel client (Status Channel Supervisor, spec section 4.3).       *)
(***************************************************************************)
\* client.listenToTransfer(id, signature, ...): opens the channel.
listenToTransfer(r, c, t, sig) ==
  Call([r EXCEPT !.chan[c] = t], <<"listenToTransfer", c, t, sig>>)

\* client.disconnect(): closes the channel.
disconnect(r, c) ==
  Call([r EXCEPT !.chan[c] = 0, !.disc[c] = Inc2(@)], <<"disconnect", c>>)

\* client.createTransfer(url, metadata): the request is in flight.
createTransfer(r, c) ==
  Call([r EXCEPT !.pending[c] = "creating"], <<"createTransfer", c>>)

\* client.createTransferAndListen(url, metadata, ...): the request is in flight.
createTransferAndListen(r, c) ==
  Call([r EXCEPT !.pending[c] = "creating"], <<"createTransferAndListen", c>>)

\* props.onSuccess(transferRequest()!, status)
onSuccess(r, t) == Call([r EXCEPT !.succ[t] = Inc2(@)], <<"onSuccess", t>>)

\* props.onError(error)
onError(r) == Call(r, <<"onError">>)

\* props.onStatusChange(currentStatus)
onStatusChange(r, s) == Call(r, <<"onStatusChange", s>>)

\* A signature passed through unchanged.
SignatureAsIs(sig) == sig

\* signature || ""
SignatureOrEmpty(sig) == IF sig \in {"undefined", ""} THEN "" ELSE sig

(***************************************************************************)
(* Modal: the two effects on props.isOpen and zenobiaClient().  An effect  *)
(* re-runs, synchronously, after every write of a signal it has read.      *)
(***************************************************************************)
\* The open effect ignoring props.transferRequest.
OpenEffectAlwaysCreates(r) ==
  IF r.isOpen /\ r.zenobiaClient = 0
  THEN IF r.nextClient >= clientLimit
       THEN [r EXCEPT !.ok = FALSE]
       ELSE LET c == r.nextClient + 1
                r1 == [r EXCEPT !.isReconnecting = FALSE,
                                !.websocketError = "null",
                                !.error = "null"]
                r2 == Call([r1 EXCEPT !.nextClient = c, !.zenobiaClient = c],
                           <<"new", c>>)
            IN  IF propsUrl
                THEN createTransfer(
                       [r2 EXCEPT !.loading = TRUE, !.error = "null"], c)
                ELSE [r2 EXCEPT
                        !.error = "No URL provided for creating a new transfer"]
  ELSE r

\* createEffect "Initialize WebSocket connection when modal opens"
OpenEffect(r) ==
  IF r.isOpen /\ r.zenobiaClient = 0
  THEN IF r.nextClient >= clientLimit
       THEN [r EXCEPT !.ok = FALSE]
       ELSE LET c == r.nextClient + 1
                r1 == [r EXCEPT !.isReconnecting = FALSE,
                                !.websocketError = "null",
                                !.error = "null"]
                r2 == Call([r1 EXCEPT !.nextClient = c, !.zenobiaClient = c],
                           <<"new", c>>)
            IN  IF propsTransferRequest # 0
                THEN listenToTransfer(
                       [r2 EXCEPT !.transferRequest = propsTransferRequest,
                                  !.recordSignature = signature],
                       c, propsTransferRequest, SignatureOrEmpty(signature))
                ELSE IF propsUrl
                THEN createTransfer(
                       [r2 EXCEPT !.loading = TRUE, !.error = "null"], c)
                ELSE [r2 EXCEPT
                        !.error = "No URL provided for creating a new transfer"]
  ELSE r

\* createEffect "Cleanup when modal closes"
CloseEffect(r) ==
  IF ~r.isOpen
  THEN LET r1 == IF r.zenobiaClient # 0
                 THEN [disconnect(r, r.zenobiaClient) EXCEPT !.zenobiaClient = 0]
                 ELSE r
       IN  [r1 EXCEPT !.isReconnecting = FALSE, !.websocketError = "null",
                      !.error = "null"]
  ELSE r

\* ZenobiaPaymentModal.tsx (349-559): the same effect without the resets of
\* isReconnecting, websocketError and error.
OpenEffectB(r) ==
  IF r.isOpen /\ r.zenobiaClient = 0
  THEN IF r.nextClient >= clientLimit
       THEN [r EXCEPT !.ok = FALSE]
       ELSE LET c == r.nextClient + 1
                r2 == Call([r EXCEPT !.nextClient = c, !.zenobiaClient = c],
                           <<"new", c>>)
            IN  IF propsTransferRequest # 0
                THEN listenToTransfer(
                       [r2 EXCEPT !.transferRequest = propsTransferRequest,
                                  !.recordSignature = signature],
                       c, propsTransferRequest, SignatureOrEmpty(signature))
                ELSE IF propsUrl
                THEN createTransfer(
                       [r2 EXCEPT !.loading = TRUE, !.error = "null"], c)
                ELSE [r2 EXCEPT
                        !.error = "No URL provided for creating a new transfer"]
  ELSE r

\* The effects of the mounted modal, run to quiescence.
RunEffects(r) ==
  IF ~r.mounted THEN r
  ELSE IF variant = "modal" THEN OpenEffect(CloseEffect(r))
  ELSE IF variant = "modalB" THEN OpenEffectB(r)
  ELSE r

\* setZenobiaClient(v)
setZenobiaClient(r, v) == RunEffects([r EXCEPT !.zenobiaClient = v])

(***************************************************************************)
(* handleStatusUpdate: the same code in the modal and in the button.       *)
(***************************************************************************)
\* The switch with IN_FLIGHT kept as a status of its own.
DerivedStatusInFlightKept(e) ==
  CASE e = "COMPLETED" -> "COMPLETED"
    [] e = "IN_FLIGHT" -> "IN_FLIGHT"
    [] e = "FAILED" -> "FAILED"
    [] e = "CANCELLED" -> "CANCELLED"
    [] OTHER -> "PENDING"

\* The switch on status.status: the value assigned to currentStatus.
DerivedStatus(e) ==
  CASE e \in {"COMPLETED", "IN_FLIGHT"} -> "COMPLETED"
    [] e = "FAILED" -> "FAILED"
    [] e = "CANCELLED" -> "CANCELLED"
    [] OTHER -> "PENDING"

\* The switch with onSuccess invoked in the case of FAILED too.
SwitchCaseFailedSucceeds(r, e) ==
  LET stop(q) == IF q.zenobiaClient # 0
                 THEN setZenobiaClient(disconnect(q, q.zenobiaClient), 0)
                 ELSE q
  IN  CASE e \in {"COMPLETED", "IN_FLIGHT", "FAILED"} ->
             stop(IF r.transferRequest # 0
                  THEN onSuccess(r, r.transferRequest)
                  ELSE r)
        [] e = "CANCELLED" -> stop(r)
        [] OTHER -> r

\* The statements of the case the switch selects.
SwitchCase(r, e) ==
  LET stop(q) == IF q.zenobiaClient # 0
                 THEN setZenobiaClient(disconnect(q, q.zenobiaClient), 0)
                 ELSE q
  IN  CASE e \in {"COMPLETED", "IN_FLIGHT"} ->
             stop(IF r.transferRequest # 0
                  THEN onSuccess(r, r.transferRequest)
                  ELSE r)
        [] e \in {"FAILED", "CANCELLED"} -> stop(r)
        [] OTHER -> r

\* The handler's body without the call of props.onStatusChange.
StatusUpdateBodySilent(r, e) ==
  LET r1 == SwitchCase(Call(r, <<"log", e>>), e)
      s == DerivedStatus(e)
  IN  [r1 EXCEPT !.transferStatus = s]

\* handleStatusUpdate(status)
StatusUpdateBody(r, e) ==
  LET r1 == SwitchCase(Call(r, <<"log", e>>), e)
      s == DerivedStatus(e)
  IN  onStatusChange([r1 EXCEPT !.transferStatus = s], s)

\* A raw event with status e arrives on the open channel of client c.
handleStatusUpdate(c, e) ==
  /\ chan[c] # 0
  /\ Commit(StatusUpdateBody(
       [Cur EXCEPT !.termSeen = IF DerivedStatus(e) \in Terminal
                                THEN @ \cup {chan[c]} ELSE @,
                   !.scenario = IF scenario = <<2, c>> /\ e = "IN_FLIGHT"
                                THEN <<3, c>> ELSE <<0, 0>>], e))

\* The messages that contain one of the four phrases as they are written.
DisconnectionErrorsCaseSensitive ==
  {m \in ErrorMessages :
     \/ includes(Chars(m), Chars("disconnect"))
     \/ includes(Chars(m), Chars("connection lost"))
     \/ includes(Chars(m), Chars("network error"))
     \/ includes(Chars(m), Chars("timeout"))}

\* The messages for which isDisconnectionError is true:
\* errorMsg.toLowerCase().includes("disconnect") || ... || ...includes("timeout")
DisconnectionErrors ==
  {m \in ErrorMessages :
     \/ includes(toLowerCase(Chars(m)), Chars("disconnect"))
     \/ includes(toLowerCase(Chars(m)), Chars("connection lost"))
     \/ includes(toLowerCase(Chars(m)), Chars("network error"))
     \/ includes(toLowerCase(Chars(m)), Chars("timeout"))}

\* const isDisconnectionError = ...
IsDisconnectionError(m) == m \in DisconnectionErrors

\* The handler setting isReconnecting for every message.
handleWebSocketErrorAlwaysReconnecting(c, m) ==
  /\ chan[c] # 0
  /\ IF variant = "modal"
     THEN IF IsDisconnectionError(m)
          THEN Commit([Cur EXCEPT !.websocketError = m,
                                  !.isReconnecting = TRUE])
          ELSE Commit(onError([Cur EXCEPT !.error = m,
                                          !.isReconnecting = TRUE]))
     ELSE Commit([Cur EXCEPT !.error = m])

\* A channel error arrives from client c.
handleWebSocketError(c, m) ==
  /\ chan[c] # 0
  /\ IF variant = "modal"
     THEN IF IsDisconnectionError(m)
          THEN Commit([Cur EXCEPT !.websocketError = m,
                                  !.isReconnecting = TRUE])
          ELSE Commit(onError([Cur EXCEPT !.error = m]))
     ELSE Commit([Cur EXCEPT !.error = m])

\* The session with the progress of the scenario after a connectivity
\* change of client c.
Observed(c, connected) ==
  [Cur EXCEPT !.scenario = IF ~connected THEN <<1, c>>
                           ELSE IF scenario = <<1, c>> THEN <<2, c>>
                           ELSE <<0, 0>>]

\* The handler closing the channel when the transport is disconnected.
handleConnectionChangeDisconnecting(c, connected) ==
  /\ chan[c] # 0
  /\ IF variant = "modal"
     THEN IF connected
          THEN Commit([Observed(c, connected) EXCEPT
                         !.isConnected = TRUE,
                         !.isReconnecting = FALSE,
                         !.websocketError = "null"])
          ELSE Commit(disconnect([Observed(c, connected) EXCEPT
                                    !.isConnected = FALSE,
                                    !.isReconnecting = TRUE], c))
     ELSE Commit([Observed(c, connected) EXCEPT !.isConnected = connected])

\* A connectivity change arrives from client c.
handleConnectionChange(c, connected) ==
  /\ chan[c] # 0
  /\ IF variant = "modal"
     THEN IF connected
          THEN Commit([Observed(c, connected) EXCEPT
                         !.isConnected = TRUE,
                         !.isReconnecting = FALSE,
                         !.websocketError = "null"])
          ELSE Commit([Observed(c, connected) EXCEPT
                         !.isConnected = FALSE,
                         !.isReconnecting = TRUE])
     ELSE Commit([Observed(c, connected) EXCEPT !.isConnected = connected])

\* onCleanup: the component is disposed.
Unmount ==
  /\ mounted
  /\ Commit([(IF zenobiaClient # 0 THEN disconnect(Cur, zenobiaClient)
              ELSE Cur) EXCEPT !.mounted = FALSE])

(***************************************************************************)
(* Modal: the host opens and closes it; the creation request settles.      *)
(***************************************************************************)
\* The host sets props.isOpen to true.
Open ==
  /\ variant \in {"modal", "modalB"} /\ mounted /\ ~isOpen
  /\ Commit(RunEffects([Cur EXCEPT !.isOpen = TRUE]))

\* The host sets props.isOpen to false.
Close ==
  /\ variant \in {"modal", "modalB"} /\ mounted /\ isOpen
  /\ Commit(RunEffects([Cur EXCEPT !.isOpen = FALSE]))

\* The continuation storing the record without opening the channel.
createTransferResolvedNoListen(c) ==
  /\ variant \in {"modal", "modalB"} /\ pending[c] = "creating"
  /\ Commit([Cur EXCEPT !.pending[c] = "done",
                        !.transferRequest = ServerId(c),
                        !.recordSignature = signature,
                        !.loading = FALSE])

\* client.createTransfer(...).then(...).finally(...)
createTransferResolved(c) ==
  /\ variant \in {"modal", "modalB"} /\ pending[c] = "creating"
  /\ LET t == ServerId(c)
         r1 == [Cur EXCEPT !.pending[c] = "done", !.transferRequest = t,
                           !.recordSignature = signature]
         r2 == listenToTransfer(r1, c, t, SignatureOrEmpty(signature))
     IN  Commit([r2 EXCEPT !.loading = FALSE])

\* client.createTransfer(...).catch(...).finally(...)
createTransferRejected(c) ==
  /\ variant \in {"modal", "modalB"} /\ pending[c] = "creating"
  /\ LET r1 == [Cur EXCEPT !.pending[c] = "failed",
                           !.error = "create failed"]
     IN  Commit([onError(r1) EXCEPT !.loading = FALSE])

(***************************************************************************)
(* Button: click, animation timer, creation, close handlers.               *)
(***************************************************************************)
\* handleClick up to the await; the button is disabled unless INITIAL.
handleClick ==
  /\ variant = "button" /\ mounted
  /\ animationState = "INITIAL"
  /\ ~loading
  /\ nextClient < clientLimit
  /\ LET c == nextClient + 1
         r1 == [Cur EXCEPT !.loading = TRUE, !.error = "null",
                           !.animationState = "QR_EXPANDING",
                           !.timers = @ + 1]
         r2 == Call([r1 EXCEPT !.nextClient = c, !.zenobiaClient = c],
                    <<"new", c>>)
     IN  Commit(createTransferAndListen(r2, c))

\* setTimeout(() => setAnimationState(QR_VISIBLE), 300) fires.
AnimationTimer ==
  /\ timers > 0
  /\ Commit([Cur EXCEPT !.timers = @ - 1, !.animationState = "QR_VISIBLE"])

\* Inside createTransferAndListen: the transfer exists and the channel is
\* open; the promise has not settled yet.
ctalListening(c) ==
  /\ variant \in {"button", "buttonTooltip"} /\ pending[c] = "creating"
  /\ Commit(listenToTransfer([Cur EXCEPT !.pending[c] = "listening"],
                             c, ServerId(c), SignatureOrEmpty(signature)))

\* handleClick after the await.
ctalResolved(c) ==
  /\ variant = "button" /\ pending[c] = "listening"
  /\ Commit([Cur EXCEPT !.pending[c] = "done",
                        !.transferRequest = ServerId(c),
                        !.recordSignature = signature,
                        !.loading = FALSE])

\* handleClick's catch block.
ctalRejected(c) ==
  /\ variant \in {"button", "buttonTooltip"} /\ pending[c] = "creating"
  /\ Commit(onError([Cur EXCEPT !.pending[c] = "failed", !.loading = FALSE,
                                !.animationState = "INITIAL",
                                !.error = "create failed"]))

\* onClick of the popup overlay and of the close button (same statements).
closePopup ==
  /\ variant = "button" /\ mounted
  /\ animationState \in {"QR_EXPANDING", "QR_VISIBLE"}
  /\ LET r1 == [Cur EXCEPT !.animationState = "INITIAL",
                           !.transferRequest = 0,
                           !.recordSignature = "none",
                           !.transferStatus = "PENDING"]
     IN  Commit(IF zenobiaClient # 0
                THEN setZenobiaClient(disconnect(r1, zenobiaClient), 0)
                ELSE r1)

(***************************************************************************)
(* The tooltip button (ZenobiaPaymentButton.tsx, third listing): the QR    *)
(* code opens under the button; IN_FLIGHT is a status of its own.          *)
(***************************************************************************)
\* The switch on status.status: the value assigned to currentStatus.
currentStatusTooltip(e) ==
  CASE e = "COMPLETED" -> "COMPLETED"
    [] e = "FAILED" -> "FAILED"
    [] e = "CANCELLED" -> "CANCELLED"
    [] e = "IN_FLIGHT" -> "IN_FLIGHT"
    [] OTHER -> "PENDING"

\* The statements of the case the switch selects.
SwitchCaseTooltip(r, e) ==
  LET stop(q) == IF q.zenobiaClient # 0
                 THEN setZenobiaClient(disconnect(q, q.zenobiaClient), 0)
                 ELSE q
  IN  CASE e = "COMPLETED" ->
             stop(IF r.transferRequest # 0
                  THEN onSuccess(r, r.transferRequest)
                  ELSE r)
        [] e \in {"FAILED", "CANCELLED"} -> stop(r)
        [] OTHER -> r

\* The handler with IN_FLIGHT sharing the case of COMPLETED.
StatusUpdateBodyTooltipInFlightCompletes(r, e) == StatusUpdateBody(r, e)

\* handleStatusUpdate(status)
StatusUpdateBodyTooltip(r, e) ==
  LET r1 == SwitchCaseTooltip(Call(r, <<"log", e>>), e)
      s == currentStatusTooltip(e)
  IN  onStatusChange([r1 EXCEPT !.transferStatus = s], s)

\* A raw event with status e arrives on the open channel of client c.
handleStatusUpdateTooltip(c, e) ==
  /\ variant = "buttonTooltip"
  /\ chan[c] # 0
  /\ Commit(StatusUpdateBodyTooltip(
       [Cur EXCEPT !.termSeen = IF currentStatusTooltip(e) \in Terminal
                                THEN @ \cup {chan[c]} ELSE @,
                   !.scenario = IF e = "IN_FLIGHT" THEN <<4, c>>
                                ELSE IF scenario = <<4, c>> /\ e \in Terminal
                                THEN <<5, c>> ELSE <<0, 0>>], e))

\* handleClick up to the await; the button is disabled unless INITIAL.
handleClickTooltip ==
  /\ variant = "buttonTooltip" /\ mounted
  /\ animationState = "INITIAL"
  /\ ~loading
  /\ nextClient < clientLimit
  /\ LET c == nextClient + 1
         r1 == [Cur EXCEPT !.loading = TRUE,
                           !.animationState = "BUTTON_CLOSING"]
         r2 == Call([r1 EXCEPT !.nextClient = c, !.zenobiaClient = c],
                    <<"new", c>>)
     IN  Commit(createTransferAndListen(r2, c))

\* handleClick after the await.
ctalResolvedTooltip(c) ==
  /\ variant = "buttonTooltip" /\ pending[c] = "listening"
  /\ Commit([Cur EXCEPT !.pending[c] = "done",
                        !.transferRequest = ServerId(c),
                        !.recordSignature = signature,
                        !.animationState = "QR_EXPANDING",
                        !.timers = @ + 1])

\* setTimeout(() => {setAnimationState(QR_VISIBLE); setLoading(false)}, 500)
\* fires.
AnimationTimerTooltip ==
  /\ variant = "buttonTooltip"
  /\ timers > 0
  /\ Commit([Cur EXCEPT !.timers = @ - 1, !.animationState = "QR_VISIBLE",
                        !.loading = FALSE])

(***************************************************************************)
(* The popup button (part_007) and the modal it renders (the first         *)
(* ZenobiaPaymentModal of ZenobiaPaymentModal.tsx).  The button creates    *)
(* the transfer; the modal, given transferRequest()?.transferRequestId,    *)
(* owns the channel client.  Creation requests are numbered in pending.    *)
(***************************************************************************)
\* The number of clicks that have issued a creation request.
Attempts(r) == Cardinality({k \in Clients : r.pending[k] # "none"})

\* <Show when={QR_EXPANDING or QR_VISIBLE}>: the modal component exists.
ModalRendered(r) == r.animationState \in {"QR_EXPANDING", "QR_VISIBLE"}

\* The modal: onCleanup when it is removed, its listen effect while it
\* exists.
ModalEffects(r) ==
  IF ~ModalRendered(r)
  THEN IF r.zenobiaClient # 0
       THEN [disconnect(r, r.zenobiaClient) EXCEPT !.zenobiaClient = 0]
       ELSE r
  ELSE IF r.transferRequest # 0 /\ r.zenobiaClient = 0
       THEN IF r.nextClient >= clientLimit THEN [r EXCEPT !.ok = FALSE]
            ELSE LET c == r.nextClient + 1
                     r1 == Call([r EXCEPT !.nextClient = c,
                                          !.zenobiaClient = c], <<"new", c>>)
                 IN  listenToTransfer(r1, c, r.transferRequest,
                                      SignatureOrEmpty(signature))
       ELSE r

\* handleStatusUpdate of the modal; its props.onSuccess is the button's
\* wrapper, which calls the host's onSuccess when a record is stored.
StatusUpdateBodyPopup(r, e) ==
  LET stop(q) == IF q.zenobiaClient # 0
                 THEN ModalEffects([disconnect(q, q.zenobiaClient)
                                      EXCEPT !.zenobiaClient = 0])
                 ELSE q
      r0 == Call(r, <<"log", e>>)
      r1 == CASE e \in {"COMPLETED", "IN_FLIGHT"} ->
                   stop(IF r0.transferRequest # 0
                        THEN onSuccess(r0, r0.transferRequest)
                        ELSE r0)
              [] e \in {"FAILED", "CANCELLED"} -> stop(r0)
              [] OTHER -> r0
      s == DerivedStatus(e)
  IN  onStatusChange([r1 EXCEPT !.transferStatus = s], s)

\* A raw event with status e arrives on the open channel of client c.
handleStatusUpdatePopup(c, e) ==
  /\ variant = "buttonPopup"
  /\ chan[c] # 0
  /\ Commit(StatusUpdateBodyPopup(
       [Cur EXCEPT !.termSeen = IF DerivedStatus(e) \in Terminal
                                THEN @ \cup {chan[c]} ELSE @], e))

\* handleClick up to the await; the button is disabled unless INITIAL.
handleClickPopup ==
  /\ variant = "buttonPopup"
  /\ animationState = "INITIAL"
  /\ ~loading
  /\ Attempts(Cur) < clientLimit
  /\ LET k == Attempts(Cur) + 1
         r1 == [Cur EXCEPT !.loading = TRUE, !.error = "null",
                           !.animationState = "QR_EXPANDING",
                           !.timers = @ + 1]
     IN  Commit(ModalEffects(createTransfer(r1, k)))

\* setTimeout(() => setAnimationState(QR_VISIBLE), 300) fires.
AnimationTimerPopup ==
  /\ variant = "buttonPopup"
  /\ timers > 0
  /\ Commit(ModalEffects([Cur EXCEPT !.timers = @ - 1,
                                     !.animationState = "QR_VISIBLE"]))

\* handleClick after the await.
createTransferResolvedPopup(k) ==
  /\ variant = "buttonPopup" /\ pending[k] = "creating"
  /\ Commit(ModalEffects([Cur EXCEPT !.pending[k] = "done",
                                     !.transferRequest = ServerId(k),
                                     !.recordSignature = signature,
                                     !.loading = FALSE]))

\* handleClick's catch block.
createTransferRejectedPopup(k) ==
  /\ variant = "buttonPopup" /\ pending[k] = "creating"
  /\ Commit(ModalEffects(onError(
       [Cur EXCEPT !.pending[k] = "failed", !.loading = FALSE,
                   !.animationState = "INITIAL",
                   !.error = "create failed"])))

\* handleClose: onClose of the open modal.
handleClose ==
  /\ variant = "buttonPopup"
  /\ animationState = "QR_VISIBLE"
  /\ Commit(ModalEffects([Cur EXCEPT !.isClosing = TRUE,
                                     !.animationState = "INITIAL",
                                     !.resetTimers =
                                       Append(@, Attempts(Cur))]))

\* The 50 ms timer of handleClose fires.
ResetTimer ==
  /\ variant = "buttonPopup"
  /\ resetTimers # <<>>
  /\ Commit(ModalEffects([Cur EXCEPT !.resetTimers = Tail(@),
                                     !.transferRequest = 0,
                                     !.recordSignature = "none",
                                     !.closingTimers = @ + 1]))

\* The 300 ms timer set by the 50 ms timer fires.
ClosingTimer ==
  /\ variant = "buttonPopup"
  /\ closingTimers > 0
  /\ Commit([Cur EXCEPT !.closingTimers = @ - 1, !.isClosing = FALSE])

\* The value of apiResult before the promise has settled.
NoResult == [tag |-> "none", message |-> <<>>, value |-> "undefined"]

\* No request function has been called.
ApiIdle ==
  /\ apiFunction = "createTransfer"
  /\ apiResponse = "none"
  /\ apiPhase = "idle"
  /\ apiRequests = 0
  /\ apiResult = NoResult

\* The value of pollInterval when the argument is not given.
OmittedInterval == -1

\* The value of pollDelay when no timer is pending.
NoTimer == -1

\* pollTransferStatus has not been called.
PollIdle ==
  /\ pollInterval = OmittedInterval
  /\ pollPhase = "idle"
  /\ pollFetches = 0
  /\ pollOutstanding = 0
  /\ pollTimers = 0
  /\ pollDelay = NoTimer
  /\ pollClock = 0
  /\ pollFetchedAt = 0
  /\ pollLast = "none"
  /\ pollResult = "pending"
  /\ pollStopped = FALSE

\* The QR effect has not run and has no input.
CodecIdle ==
  /\ qrComponent = "modal"
  /\ qrTransferId = <<>>
  /\ qrHasMerchantId = FALSE
  /\ qrIsTest = FALSE
  /\ qrPayload = <<>>
  /\ qrString = <<>>
  /\ qrOutcome = "none"

\* The initial values of the signals of a component.
InitSignals ==
  /\ mounted = TRUE
  /\ isOpen = FALSE
  /\ propsTransferRequest \in
       (IF variant = "button" THEN {0} ELSE {0, PropTransferId})
  /\ propsUrl \in (IF variant = "button" THEN {TRUE} ELSE BOOLEAN)
  /\ animationState = "INITIAL"
  /\ timers = 0
  /\ loading = FALSE
  /\ zenobiaClient = 0
  /\ transferRequest = 0
  /\ transferStatus = "PENDING"
  /\ error = "null"
  /\ isConnected = FALSE
  /\ isReconnecting = FALSE
  /\ websocketError = "null"
  /\ nextClient = 0
  /\ pending = [c \in Clients |-> "none"]
  /\ chan = [c \in Clients |-> 0]
  /\ disc = [c \in Clients |-> 0]
  /\ calls = <<>>
  /\ termSeen = {}
  /\ succ = [t \in Transfers |-> 0]
  /\ recordSignature = "none"
  /\ scenario = <<0, 0>>
  /\ isClosing = FALSE
  /\ resetTimers = <<>>
  /\ closingTimers = 0

InitSession == InitSignals /\ CodecIdle /\ ApiIdle /\ PollIdle

Init ==
  /\ variant \in {"modal", "button"}
  /\ signature = "sig-1"
  /\ clientLimit = MaxClients
  /\ InitSession

\* The modal with connectivity and channel-error events.
InitConn ==
  /\ variant = "modal"
  /\ signature = "sig-1"
  /\ clientLimit = MaxConnClients
  /\ InitSession

\* The modal with room for a third attempt.
InitRetry ==
  /\ variant = "modal"
  /\ signature = "sig-1"
  /\ clientLimit = MaxRetryClients
  /\ InitSession

\* The two modals, with every kind of signature field.
InitModal ==
  /\ variant \in {"modal", "modalB"}
  /\ signature \in Signatures
  /\ clientLimit = MaxClients
  /\ InitSession

Next ==
  \/ Open
  \/ Close
  \/ Unmount
  \/ handleClick
  \/ AnimationTimer
  \/ closePopup
  \/ \E c \in Clients : createTransferResolved(c)
  \/ \E c \in Clients : createTransferRejected(c)
  \/ \E c \in Clients : ctalListening(c)
  \/ \E c \in Clients : ctalResolved(c)
  \/ \E c \in Clients : ctalRejected(c)
  \/ \E c \in Clients, e \in RawStatuses : handleStatusUpdate(c, e)

Spec == Init /\ [][Next]_vars

\* The steps of a modal.
NextModal ==
  \/ Open
  \/ Close
  \/ Unmount
  \/ \E c \in Clients : createTransferResolved(c)
  \/ \E c \in Clients : createTransferRejected(c)
  \/ \E c \in Clients, e \in RawStatuses : handleStatusUpdate(c, e)

SpecModal == InitModal /\ [][NextModal]_vars

SpecRetry == InitRetry /\ [][NextModal]_vars

\* The modal with the channel's error and connectivity callbacks.
NextConn ==
  \/ NextModal
  \/ \E c \in Clients, m \in ErrorMessages : handleWebSocketError(c, m)
  \/ \E c \in Clients, b \in BOOLEAN : handleConnectionChange(c, b)

SpecConn == InitConn /\ [][NextConn]_vars

\* The modal with the channel's connectivity callback.
InitReconnect ==
  /\ variant = "modal"
  /\ signature = "sig-1"
  /\ clientLimit = MaxReconnectClients
  /\ InitSession

NextReconnect ==
  \/ NextModal
  \/ \E c \in Clients, b \in BOOLEAN : handleConnectionChange(c, b)

SpecReconnect == InitReconnect /\ [][NextReconnect]_vars

\* The tooltip button.
InitTooltip ==
  /\ variant = "buttonTooltip"
  /\ signature = "sig-1"
  /\ clientLimit = MaxClients
  /\ InitSignals
  /\ propsTransferRequest = 0
  /\ propsUrl
  /\ CodecIdle
  /\ ApiIdle
  /\ PollIdle

NextTooltip ==
  \/ Unmount
  \/ handleClickTooltip
  \/ AnimationTimerTooltip
  \/ \E c \in Clients : ctalListening(c)
  \/ \E c \in Clients : ctalResolvedTooltip(c)
  \/ \E c \in Clients : ctalRejected(c)
  \/ \E c \in Clients, e \in RawStatuses : handleStatusUpdateTooltip(c, e)

SpecTooltip == InitTooltip /\ [][NextTooltip]_vars

\* The popup button with its modal.
InitPopup ==
  /\ variant = "buttonPopup"
  /\ signature = "sig-1"
  /\ clientLimit = MaxPopupClients
  /\ InitSignals
  /\ propsTransferRequest = 0
  /\ propsUrl
  /\ CodecIdle
  /\ ApiIdle
  /\ PollIdle

NextPopup ==
  \/ handleClickPopup
  \/ AnimationTimerPopup
  \/ handleClose
  \/ ResetTimer
  \/ ClosingTimer
  \/ \E k \in Clients : createTransferResolvedPopup(k)
  \/ \E k \in Clients : createTransferRejectedPopup(k)
  \/ \E c \in Clients, e \in RawStatuses : handleStatusUpdatePopup(c, e)

SpecPopup == InitPopup /\ [][NextPopup]_vars

(***************************************************************************)
(* The QR effect: the payload and the QR target of a transfer identifier.  *)
(* Strings are sequences of characters.                                    *)
(***************************************************************************)
\* Bound on the length of a transfer identifier.
MaxIdLen == 4

\* The characters of the identifiers: the dash, a letter and the two
\* characters whose codes end in the sextets 62 and 63.
IdAlphabet == {"-", "a", ">", "?"}

Identifiers == UNION {[1..n -> IdAlphabet] : n \in 0..MaxIdLen}

\* String.prototype.charCodeAt for the characters of IdAlphabet.
CharCode(ch) ==
  CASE ch = "-" -> 45
    [] ch = ">" -> 62
    [] ch = "?" -> 63
    [] ch = "a" -> 97

Digits == <<"0", "1", "2", "3", "4", "5", "6", "7", "8", "9">>

\* The alphabet of btoa.
Base64Alphabet == UpperLetters \o LowerLetters \o Digits \o <<"+", "/">>

\* .replace(/-/g, "")
IsNotDash(ch) == ch # "-"

replaceDashes(s) == SelectSeq(s, IsNotDash)

RECURSIVE btoa(_)
\* btoa(s): three bytes become four characters, the last group is padded
\* with "=".
btoa(s) ==
  IF Len(s) = 0 THEN <<>>
  ELSE IF Len(s) = 1
  THEN LET a == CharCode(s[1])
       IN  <<Base64Alphabet[(a \div 4) + 1],
             Base64Alphabet[((a % 4) * 16) + 1], "=", "=">>
  ELSE IF Len(s) = 2
  THEN LET a == CharCode(s[1])
           b == CharCode(s[2])
       IN  <<Base64Alphabet[(a \div 4) + 1],
             Base64Alphabet[((a % 4) * 16) + (b \div 16) + 1],
             Base64Alphabet[((b % 16) * 4) + 1], "=">>
  ELSE LET a == CharCode(s[1])
           b == CharCode(s[2])
           c == CharCode(s[3])
       IN  <<Base64Alphabet[(a \div 4) + 1],
             Base64Alphabet[((a % 4) * 16) + (b \div 16) + 1],
             Base64Alphabet[((b % 16) * 4) + (c \div 64) + 1],
             Base64Alphabet[(c % 64) + 1]>> \o btoa(SubSeq(s, 4, Len(s)))

\* .replace(/\+/g, "-")
replacePlus(s) == [i \in DOMAIN s |-> IF s[i] = "+" THEN "-" ELSE s[i]]

\* The replacement of "/" by "-" instead of "_".
replaceSlashByDash(s) == [i \in DOMAIN s |-> IF s[i] = "/" THEN "-" ELSE s[i]]

\* .replace(/\//g, "_")
replaceSlash(s) == [i \in DOMAIN s |-> IF s[i] = "/" THEN "_" ELSE s[i]]

\* No replacement at the end of the string.
keepPadding(s) == s

\* .replace(/=+$/, ""): the longest run of "=" at the end is removed.
stripPadding(s) ==
  LET n == CHOOSE k \in 0..Len(s) :
             /\ \A i \in (Len(s) - k + 1)..Len(s) : s[i] = "="
             /\ k < Len(s) => s[Len(s) - k] # "="
  IN  SubSeq(s, 1, Len(s) - n)

\* const base64TransferId = btoa(transferIdNoDashes).replace(...)...
Base64TransferId(id) ==
  stripPadding(replaceSlash(replacePlus(btoa(replaceDashes(id)))))

QrPrefix ==
  <<"h", "t", "t", "p", "s", ":", "/", "/", "z", "e", "n", "o", "b",
    "i", "a", "p", "a", "y", ".", "c", "o", "m", "/", "c", "l", "i",
    "p", "?", "i", "d", "=">>

TestSuffix == <<"&", "t", "y", "p", "e", "=", "t", "e", "s", "t">>

\* The QR target without the marker of the test mode.
QrStringNoTestMarker(component, id, isTest) == QrPrefix \o Base64TransferId(id)

\* qrString: the modal appends "&type=test" if props.isTest; the button has
\* no test mode.
QrString(component, id, isTest) ==
  QrPrefix \o Base64TransferId(id)
    \o (IF component = "modal" /\ isTest THEN TestSuffix ELSE <<>>)

\* The condition of the effect: the modal tests transferRequestId, the
\* button transferRequestId and merchantId.
QrGuard ==
  /\ qrTransferId # <<>>
  /\ qrComponent = "button" => qrHasMerchantId

\* createEffect "Generate QR code when transfer request is created"
QrEffect ==
  /\ qrOutcome = "none"
  /\ IF QrGuard
     THEN /\ qrPayload' = Base64TransferId(qrTransferId)
          /\ qrString' = QrString(qrComponent, qrTransferId, qrIsTest)
          /\ qrOutcome' = "generated"
     ELSE /\ qrOutcome' = "skipped"
          /\ UNCHANGED <<qrPayload, qrString>>
  /\ UNCHANGED <<qrComponent, qrTransferId, qrHasMerchantId, qrIsTest>>
  /\ UNCHANGED <<sessionVars, apiVars, pollVars>>

\* A component whose transferRequest has just been set.
InitCodec ==
  /\ variant = "modal"
  /\ signature = "sig-1"
  /\ clientLimit = MaxClients
  /\ InitSignals
  /\ propsTransferRequest = 0
  /\ propsUrl
  /\ qrComponent \in {"modal", "button"}
  /\ qrTransferId \in Identifiers
  /\ qrHasMerchantId \in BOOLEAN
  /\ qrIsTest \in (IF qrComponent = "modal" THEN BOOLEAN ELSE {FALSE})
  /\ qrPayload = <<>>
  /\ qrString = <<>>
  /\ qrOutcome = "none"
  /\ ApiIdle
  /\ PollIdle

NextCodec == QrEffect

SpecCodec == InitCodec /\ [][NextCodec]_vars

(***************************************************************************)
(* The request functions of the client package: createTransfer of api.ts   *)
(* and ZenobiaClient.createPayment of zenobiaClient.ts.  A message is a    *)
(* sequence of the strings it is concatenated from.                        *)
(***************************************************************************)
\* Bodies of a response: the text is JSON or not; the fields of the JSON
\* object that the functions read are message and id ("undefined" when the
\* object has no such field), transferRequestId stands for the record.
ResponseBodies ==
  {[json |-> TRUE, transferRequestId |-> "tr-1", id |-> "undefined",
    message |-> "undefined"],
   [json |-> TRUE, transferRequestId |-> "undefined", id |-> "7",
    message |-> "undefined"],
   [json |-> TRUE, transferRequestId |-> "undefined", id |-> "undefined",
    message |-> "amount too small"],
   [json |-> TRUE, transferRequestId |-> "undefined", id |-> "undefined",
    message |-> ""],
   [json |-> TRUE, transferRequestId |-> "undefined", id |-> "undefined",
    message |-> "undefined"],
   [json |-> FALSE, transferRequestId |-> "undefined", id |-> "undefined",
    message |-> "undefined"]}

\* response.statusText
StatusTexts == {"", "OK", "Bad Request"}

\* What a fetch is answered with: the fetch is rejected (network error), or
\* it resolves with a response.
Responses ==
  [network : {FALSE}, ok : BOOLEAN, statusText : StatusTexts,
   body : ResponseBodies]
  \cup [network : {TRUE}, ok : {FALSE}, statusText : {""},
        body : {CHOOSE b \in ResponseBodies : ~b.json}]

\* A promise rejected with an Error of the given message.
Rejected(message) ==
  [tag |-> "rejected", message |-> message, value |-> "undefined"]

\* A promise resolved with the given value.
Resolved(value) == [tag |-> "resolved", message |-> <<>>, value |-> value]

\* await response.json(), then the promise `settled` that the code after it
\* makes of the body
Json(response, settled) ==
  IF response.body.json THEN settled
  ELSE Rejected(<<"SyntaxError">>)

\* createTransfer(merchantBackend, amount, statementItems) of api.ts
createTransferOutcome(response) ==
  LET returnBody(b) == Resolved(b)
  IN  IF response.network THEN Rejected(<<"TypeError">>)
      ELSE IF ~response.ok
      THEN Rejected(<<"Error creating transfer: ", response.statusText>>)
      ELSE Json(response, returnBody(response.body))

\* ZenobiaClient.createPayment(amount, currency, description)
createPaymentOutcome(response) ==
  LET throwMessage(b) ==
        Rejected(IF b.message \in {"undefined", ""}
                 THEN <<"Failed to create payment">>
                 ELSE <<b.message>>)
      returnId(b) == Resolved(b.id)
  IN  IF response.network THEN Rejected(<<"TypeError">>)
      ELSE IF ~response.ok THEN Json(response, throwMessage(response.body))
      ELSE Json(response, returnId(response.body))

\* The function is called and issues its fetch.
ApiCall ==
  /\ apiPhase = "idle"
  /\ apiPhase' = "fetching"
  /\ apiRequests' = apiRequests + 1
  /\ UNCHANGED <<apiFunction, apiResponse, apiResult>>
  /\ UNCHANGED <<sessionVars, codecVars, pollVars>>

\* The fetch settles and the function runs to its return or throw.
ApiSettle ==
  /\ apiPhase = "fetching"
  /\ apiPhase' = "settled"
  /\ apiResult' = IF apiFunction = "createTransfer"
                  THEN createTransferOutcome(apiResponse)
                  ELSE createPaymentOutcome(apiResponse)
  /\ UNCHANGED <<apiFunction, apiResponse, apiRequests>>
  /\ UNCHANGED <<sessionVars, codecVars, pollVars>>

InitApi ==
  /\ variant = "modal"
  /\ signature = "sig-1"
  /\ clientLimit = MaxClients
  /\ InitSignals
  /\ propsTransferRequest = 0
  /\ propsUrl
  /\ CodecIdle
  /\ apiFunction \in {"createTransfer", "createPayment"}
  /\ apiResponse \in Responses
  /\ apiPhase = "idle"
  /\ apiRequests = 0
  /\ apiResult = NoResult
  /\ PollIdle

NextApi == ApiCall \/ ApiSettle

SpecApi == InitApi /\ [][NextApi]_vars

(***************************************************************************)
(* pollTransferStatus of poll.ts: the polling loop.                        *)
(***************************************************************************)
\* Bound on the number of fetches of one call.
MaxPolls == 3

\* interval: number = 2000
DefaultInterval == 2000

\* The intervals a caller passes.
IntervalArgs == {OmittedInterval, 500}

\* The value of the parameter interval.
Interval == IF pollInterval = OmittedInterval THEN DefaultInterval
            ELSE pollInterval

\* The ways a poll can fail: the fetch is rejected, the response is not ok,
\* the body is not JSON.
PollErrors == {"fetch rejected", "not ok", "not JSON"}

\* What a fetch is answered with: a status, or a failure.
PollAnswers == RawStatuses \cup PollErrors

\* The statuses on which the loop breaks.
PollBreaks == {"COMPLETED", "FAILED"}

\* The loop left with the error thrown again.
PollReturnRethrowing(a) ==
  IF a \in PollErrors THEN "rejected" ELSE "resolved"

\* How the promise settles when the loop is left after answer a: by the
\* break of a terminal status, or by the break of the catch block.
PollReturn(a) == "resolved"

\* The first iteration of the loop: await fetch(url).
PollCall ==
  /\ pollPhase = "idle"
  /\ pollPhase' = "fetching"
  /\ pollFetches' = pollFetches + 1
  /\ pollOutstanding' = pollOutstanding + 1
  /\ pollFetchedAt' = pollClock
  /\ UNCHANGED <<pollInterval, pollTimers, pollDelay, pollClock, pollLast,
                 pollResult, pollStopped>>
  /\ UNCHANGED <<sessionVars, codecVars, apiVars>>

\* The loop body with the wait removed: the next fetch is issued at once.
PollAnswerRepollsAtOnce(a) ==
  /\ pollPhase = "fetching"
  /\ pollLast' = a
  /\ IF a \in PollErrors \/ a \in PollBreaks
     THEN /\ pollPhase' = "returned"
          /\ pollResult' = PollReturn(a)
          /\ pollOutstanding' = pollOutstanding - 1
          /\ UNCHANGED <<pollFetches, pollFetchedAt>>
     ELSE /\ pollFetches < MaxPolls
          /\ pollPhase' = "fetching"
          /\ pollFetches' = pollFetches + 1
          /\ pollFetchedAt' = pollClock
          /\ UNCHANGED <<pollResult, pollOutstanding>>
  /\ UNCHANGED <<pollInterval, pollTimers, pollDelay, pollClock, pollStopped>>
  /\ UNCHANGED <<sessionVars, codecVars, apiVars>>

\* The fetch is answered with a: the rest of the loop body, up to the
\* break or the await of the timer.
PollAnswer(a) ==
  /\ pollPhase = "fetching"
  /\ pollOutstanding' = pollOutstanding - 1
  /\ pollLast' = a
  /\ IF a \in PollErrors \/ a \in PollBreaks
     THEN /\ pollPhase' = "returned"
          /\ pollResult' = PollReturn(a)
          /\ UNCHANGED <<pollTimers, pollDelay>>
     ELSE /\ pollPhase' = "waiting"
          /\ pollTimers' = pollTimers + 1
          /\ pollDelay' = Interval
          /\ UNCHANGED pollResult
  /\ UNCHANGED <<pollInterval, pollFetches, pollClock, pollFetchedAt,
                 pollStopped>>
  /\ UNCHANGED <<sessionVars, codecVars, apiVars>>

\* The timer fires and the next iteration begins: await fetch(url).
PollTimer ==
  /\ pollPhase = "waiting"
  /\ pollFetches < MaxPolls
  /\ pollClock' = pollClock + pollDelay
  /\ pollDelay' = NoTimer
  /\ pollPhase' = "fetching"
  /\ pollFetches' = pollFetches + 1
  /\ pollOutstanding' = pollOutstanding + 1
  /\ pollFetchedAt' = pollClock'
  /\ UNCHANGED <<pollInterval, pollTimers, pollLast, pollResult, pollStopped>>
  /\ UNCHANGED <<sessionVars, codecVars, apiVars>>

\* The session that called is stopped (closed, disposed): the function
\* takes no signal and reads no state of the session.
SessionStop ==
  /\ pollPhase # "idle"
  /\ ~pollStopped
  /\ pollStopped' = TRUE
  /\ UNCHANGED <<pollInterval, pollPhase, pollFetches, pollOutstanding,
                 pollTimers, pollDelay, pollClock, pollFetchedAt, pollLast,
                 pollResult>>
  /\ UNCHANGED <<sessionVars, codecVars, apiVars>>

InitPoll ==
  /\ variant = "modal"
  /\ signature = "sig-1"
  /\ clientLimit = MaxClients
  /\ InitSignals
  /\ propsTransferRequest = 0
  /\ propsUrl
  /\ CodecIdle
  /\ ApiIdle
  /\ pollInterval \in IntervalArgs
  /\ pollPhase = "idle"
  /\ pollFetches = 0
  /\ pollOutstanding = 0
  /\ pollTimers = 0
  /\ pollDelay = NoTimer
  /\ pollClock = 0
  /\ pollFetchedAt = 0
  /\ pollLast = "none"
  /\ pollResult = "pending"
  /\ pollStopped = FALSE

NextPoll ==
  \/ PollCall
  \/ \E a \in PollAnswers : PollAnswer(a)
  \/ PollTimer
  \/ SessionStop

SpecPoll == InitPoll /\ [][NextPoll]_vars

TypeOK ==
  /\ zenobiaClient \in 0..clientLimit
  /\ transferRequest \in {0} \cup Transfers
  /\ transferStatus \in TransferStatus
  /\ nextClient \in 0..clientLimit

(***************************************************************************)
(* Properties.                                                             *)
(***************************************************************************)
\* The names of the calls in a call sequence.
Names(cs) == {cs[i][1] : i \in DOMAIN cs}

UiCallbacks == {"onSuccess", "onError", "onStatusChange"}

\* The raw status handled by the last step, when it was a status update.
Handled(e) == calls # <<>> /\ calls[1][1] = "log" /\ calls[1][2] = e

\* C1: once an event of a transfer has produced a terminal derived status,
\* no later event of that transfer invokes onStatusChange or changes the
\* stored transferStatus.
C1_TerminalIsFinal ==
  [][\A c \in Clients, e \in RawStatuses :
       (handleStatusUpdate(c, e) /\ chan[c] \in termSeen)
         => (transferStatus' = transferStatus
             /\ "onStatusChange" \notin Names(calls'))]_vars

\* C2: when the stored status is terminal, the status computed from it and
\* any raw event is the stored status again.
C2_StickyTerminal ==
  [][\A c \in Clients, e \in RawStatuses :
       (handleStatusUpdate(c, e) /\ transferStatus \in Terminal)
         => transferStatus' = transferStatus]_vars

\* C3: the first terminal event of a transfer disconnects the client and
\* clears the stored client reference; a further terminal event of the same
\* transfer disconnects nothing.
C3_DisconnectOnce ==
  [][\A c \in Clients, e \in RawStatuses :
       (handleStatusUpdate(c, e) /\ DerivedStatus(e) \in Terminal)
         => IF chan[c] \in termSeen
            THEN "disconnect" \notin Names(calls')
            ELSE /\ chan'[c] = 0
                 /\ disc'[c] = 1
                 /\ zenobiaClient' # c]_vars

\* C4: onSuccess is invoked at most once for one transfer.
C4_OnSuccessAtMostOnce == \A t \in Transfers : succ[t] <= 1

\* The reference mapping from raw status strings to TransferStatus.
RefStatus(e) ==
  IF e = "COMPLETED" \/ e = "IN_FLIGHT" THEN "COMPLETED"
  ELSE IF e = "FAILED" THEN "FAILED"
  ELSE IF e = "CANCELLED" THEN "CANCELLED"
  ELSE "PENDING"

\* C5: after the status handler has handled a raw event e, the stored status
\* is the reference mapping of e, it is a TransferStatus member, and it is
\* the status passed to onStatusChange.
C5_MappingIsReference ==
  \A e \in RawStatuses :
    Handled(e) =>
      /\ transferStatus = RefStatus(e)
      /\ transferStatus \in TransferStatus
      /\ calls[Len(calls)][1] = "onStatusChange"
      /\ calls[Len(calls)][2] = RefStatus(e)

\* C5 witness: an IN_FLIGHT event has been handled and the status is COMPLETED;
\* an unrecognised string is handled in other states.
C5_Witness == Handled("IN_FLIGHT") /\ transferStatus = "COMPLETED"

\* C6: at most one channel client is started and not yet disconnected.
C6_OneActiveChannel == Cardinality({c \in Clients : chan[c] # 0}) <= 1

\* C7: a creation that resolves after the session was stopped opens no
\* channel and stores no TransferRecord.
C7_NoLateResurrection ==
  [][\A c \in Clients :
       ((createTransferResolved(c) /\ ~isOpen)
          \/ (ctalResolved(c) /\ animationState = "INITIAL"))
         => UNCHANGED <<chan, transferRequest>>]_vars

\* C8: a status callback from a client that is no longer the session's client
\* changes no status and invokes no UI callback.
C8_StaleCallbacksDiscarded ==
  [][\A c \in Clients, e \in RawStatuses :
       (handleStatusUpdate(c, e) /\ c # zenobiaClient)
         => (transferStatus' = transferStatus
             /\ Names(calls') \cap UiCallbacks = {})]_vars

\* C9: an explicit stop while a TransferRecord is held leaves the session
\* with no record and no client.
C9_StopDiscardsRecord ==
  [][((Close \/ closePopup) /\ transferRequest # 0)
       => (transferRequest' = 0 /\ zenobiaClient' = 0)]_vars

\* C10: after a stop no channel of the session is open and no timer of the
\* session is pending.
C10_StopLeavesNothingLive ==
  [][(Close \/ closePopup \/ Unmount)
       => (timers' = 0 /\ \A c \in Clients : chan'[c] = 0)]_vars

\* The calls that issue a create-transfer request.
CreateCalls == {"createTransfer", "createTransferAndListen"}

\* The creation of the stored client has failed and the user has not started
\* again since.
FailedIdle == zenobiaClient # 0 /\ pending[zenobiaClient] = "failed"

\* C11: when the create-transfer request fails, the failure is surfaced
\* through onError, no status channel is opened and no record is stored; and
\* from then on no create-transfer request is issued until the user starts
\* again (opens the modal or clicks the button).
C11_FailureSurfacedNoRetry ==
  [][/\ \A c \in Clients :
          (createTransferRejected(c) \/ ctalRejected(c)) =>
            (/\ "onError" \in Names(calls')
             /\ chan' = chan
             /\ transferRequest' = transferRequest
             /\ Names(calls') \cap CreateCalls = {})
     /\ (FailedIdle /\ ~(Open \/ handleClick)) =>
          (Names(calls') \cap CreateCalls = {})]_vars

\* An attempt of this session has failed: a creation was rejected, or the
\* modal was opened with neither a transferRequest nor a url.
AttemptFailed ==
  \/ \E c \in Clients : pending[c] = "failed"
  \/ nextClient > 0 /\ propsTransferRequest = 0 /\ ~propsUrl

\* The stored client has an open channel.
StillTracking == zenobiaClient # 0 /\ chan[zenobiaClient] # 0

\* C12: after a failure the session is restartable: when the user starts
\* again (opens the modal, clicks the button), either the session is still
\* tracking or the start begins a fresh attempt with a new client.
C12_RestartableAfterFailure ==
  [][((Open \/ handleClick) /\ AttemptFailed) =>
       (StillTracking \/ "new" \in Names(calls'))]_vars

\* The signature argument expected for a record of this behaviour: its
\* signature, or the empty string when the record has none.
ExpectedSignature == IF signature = "undefined" THEN "" ELSE signature

\* C13: a modal given an existing transferRequest never issues a
\* create-transfer request; every attempt it begins stores exactly the
\* supplied record and listens, at once, with the supplied transferRequestId
\* and signature on the new client.
C13_SuppliedRecordTrackedDirectly ==
  propsTransferRequest # 0 =>
    /\ \A c \in Clients : pending[c] = "none"
    /\ Names(calls) \cap CreateCalls = {}
    /\ \A i \in DOMAIN calls :
         calls[i][1] = "new" =>
           /\ i < Len(calls)
           /\ calls[i + 1] = <<"listenToTransfer", calls[i][2],
                               PropTransferId, ExpectedSignature>>
           /\ chan[calls[i][2]] = PropTransferId
           /\ transferRequest = PropTransferId
           /\ recordSignature = signature

C13_Witness ==
  /\ propsTransferRequest = PropTransferId
  /\ calls = <<<<"new", 1>>,
               <<"listenToTransfer", 1, PropTransferId, "sig-1">>>>
  /\ transferRequest = PropTransferId
  /\ recordSignature = "sig-1"

\* C14: with a url and no transferRequest, the continuation of a successful
\* creation stores the returned record and opens the channel for the
\* returned transferRequestId and signature on the client that issued the
\* creation, all in the one step.
C14_ResolvedStoresAndListens ==
  [][\A c \in Clients :
       createTransferResolved(c) =>
         (/\ propsTransferRequest = 0 /\ propsUrl
          /\ transferRequest' = ServerId(c)
          /\ recordSignature' = signature
          /\ calls' = <<<<"listenToTransfer", c, ServerId(c),
                          ExpectedSignature>>>>
          /\ chan'[c] = ServerId(c)
          /\ pending'[c] = "done")]_vars

C14_Witness ==
  /\ calls = <<<<"listenToTransfer", 1, ServerId(1), "sig-1">>>>
  /\ transferRequest = ServerId(1)
  /\ chan[1] = ServerId(1)
  /\ zenobiaClient = 1

\* C15: for a record whose signature is absent or empty, listenToTransfer
\* is called with the empty string as signature.
C15_MissingSignatureIsEmptyString ==
  signature \in {"undefined", ""} =>
    \A i \in DOMAIN calls :
      calls[i][1] = "listenToTransfer" => calls[i][4] = ""

C15_Witness ==
  /\ signature = "undefined"
  /\ propsTransferRequest = PropTransferId
  /\ \E i \in DOMAIN calls : calls[i] = <<"listenToTransfer", 1,
                                          PropTransferId, "">>

\* C16: opening the modal with neither a transferRequest nor a url surfaces
\* the failure through onError, sends no create-transfer request and opens
\* no channel.
C16_MissingUrlSurfaced ==
  [][(Open /\ propsTransferRequest = 0 /\ ~propsUrl) =>
       (/\ "onError" \in Names(calls')
        /\ Names(calls') \cap CreateCalls = {}
        /\ chan' = chan)]_vars

\* The messages of ErrorMessages that contain, in some case, "disconnect",
\* "connection lost", "network error" or "timeout".
ConnectivityWorded ==
  {"WebSocket disconnected", "Connection Lost", "NETWORK ERROR",
   "Request Timeout"}

\* The step is handleWebSocketError(c, m); a step of that handler makes no
\* call but onError.
ErrorStep(c, m) ==
  /\ calls' \in {<<>>, <<<<"onError">>>>}
  /\ m \in {error', websocketError'}
  /\ handleWebSocketError(c, m)

\* C17: a channel error whose message contains, case-insensitively, one of
\* the four phrases puts the modal into the reconnecting state and neither
\* invokes onError nor sets the user-facing error, for every such message and
\* in every state in which a channel error can be delivered.
C17_ConnectivityErrorsReconnect ==
  [][\A c \in Clients, m \in ConnectivityWorded :
       ErrorStep(c, m) =>
         (/\ isReconnecting'
          /\ websocketError' = m
          /\ error' = error
          /\ "onError" \notin Names(calls'))]_vars

C17_Witness ==
  /\ websocketError = "NETWORK ERROR"
  /\ isReconnecting
  /\ error = "null"
  /\ calls = <<>>
  /\ zenobiaClient # 0

\* C18: a channel error whose message contains none of the four phrases is
\* reported through onError at once and leaves the client, the record, the
\* transferStatus, isConnected and isReconnecting unchanged.
C18_OtherErrorsReported ==
  [][\A c \in Clients, m \in ErrorMessages \ ConnectivityWorded :
       ErrorStep(c, m) =>
         (/\ calls' = <<<<"onError">>>>
          /\ error' = m
          /\ UNCHANGED <<zenobiaClient, chan, transferRequest,
                         recordSignature, transferStatus, isConnected,
                         isReconnecting>>)]_vars

C18_Witness ==
  /\ error = "Time out"
  /\ calls = <<<<"onError">>>>
  /\ isReconnecting
  /\ websocketError = "Connection Lost"
  /\ zenobiaClient # 0 /\ chan[zenobiaClient] # 0

\* The step is handleConnectionChange(c, b); a step of that handler makes
\* no call unless it closes the channel.
ConnectionStep(c, b) ==
  /\ calls' \in {<<>>, <<<<"disconnect", c>>>>}
  /\ isConnected' = b
  /\ handleConnectionChange(c, b)

\* C19: handling a connectivity change never changes transferStatus or the
\* record, never invokes onStatusChange, onSuccess or onError and never
\* closes the channel.
C19_ConnectivityChangeFrame ==
  [][\A c \in Clients, b \in BOOLEAN :
       ConnectionStep(c, b) =>
         (/\ UNCHANGED <<transferStatus, transferRequest, recordSignature,
                         chan, zenobiaClient>>
          /\ Names(calls') \cap (UiCallbacks \cup {"disconnect"}) = {})]_vars

C19_Witness ==
  /\ zenobiaClient # 0
  /\ scenario = <<1, zenobiaClient>>
  /\ chan[zenobiaClient] = transferRequest
  /\ transferRequest # 0
  /\ ~isConnected /\ isReconnecting
  /\ calls = <<>>

\* C20: when the transport reports a disconnect, then a reconnect, and then
\* delivers a raw IN_FLIGHT event, the session observes connectivity false
\* (reconnecting), then connectivity true (reconnecting cleared), then the
\* status change, in that order, and the status change reaches
\* onStatusChange.
C20_ReconnectThenStatus ==
  /\ scenario[1] = 1 => (~isConnected /\ isReconnecting)
  /\ scenario[1] = 2 =>
       (isConnected /\ ~isReconnecting /\ websocketError = "null")
  /\ scenario[1] = 3 =>
       (/\ isConnected /\ ~isReconnecting
        /\ transferStatus = "COMPLETED"
        /\ Handled("IN_FLIGHT")
        /\ calls[Len(calls)] = <<"onStatusChange", "COMPLETED">>)

C20_Witness ==
  /\ scenario[1] = 3
  /\ \E i \in DOMAIN calls : calls[i] = <<"disconnect", scenario[2]>>
  /\ calls[Len(calls)] = <<"onStatusChange", "COMPLETED">>
  /\ isConnected

\* C21: a raw event whose derived status equals the current transferStatus
\* (a repeated PENDING, say) does not invoke onStatusChange again.
C21_StatusStreamDeduplicated ==
  [][\A c \in Clients, e \in RawStatuses :
       (transferStatus = DerivedStatus(e) /\ handleStatusUpdate(c, e)) =>
         "onStatusChange" \notin Names(calls')]_vars

\* The eight bits of a byte, most significant first.
Bits8(n) == [i \in 1..8 |-> (n \div (2 ^ (8 - i))) % 2]

RECURSIVE BitsOf(_)
\* The bits of a string of bytes.
BitsOf(s) ==
  IF s = <<>> THEN <<>> ELSE Bits8(CharCode(Head(s))) \o BitsOf(Tail(s))

\* The alphabet of base64url (RFC 4648, section 5).
UrlSafeAlphabet == UpperLetters \o LowerLetters \o Digits \o <<"-", "_">>

\* base64url without padding: the bits, filled with zeros to a multiple of
\* six, read six at a time.
Base64Url(s) ==
  LET b == BitsOf(s)
      padded == b \o [i \in 1..((6 - (Len(b) % 6)) % 6) |-> 0]
      sextet(k) == (32 * padded[(6 * k) - 5]) + (16 * padded[(6 * k) - 4])
                   + (8 * padded[(6 * k) - 3]) + (4 * padded[(6 * k) - 2])
                   + (2 * padded[(6 * k) - 1]) + padded[6 * k]
  IN  [k \in 1..(Len(padded) \div 6) |-> UrlSafeAlphabet[sextet(k) + 1]]

\* An identifier without its dashes, written without SelectSeq.
RECURSIVE NoDashes(_)
NoDashes(s) ==
  IF s = <<>> THEN <<>>
  ELSE IF Head(s) = "-" THEN NoDashes(Tail(s))
  ELSE <<Head(s)>> \o NoDashes(Tail(s))

\* C22: for every non-empty transfer identifier the payload the components
\* compute is a function of the identifier alone (the unpadded base64url of
\* the identifier without dashes, whatever the component and the test mode)
\* and contains none of "+", "/" and "=".
C22_PayloadIsUrlSafe ==
  /\ (qrOutcome # "none" /\ qrTransferId # <<>>
        /\ (qrComponent = "modal" \/ qrHasMerchantId))
       => qrOutcome = "generated"
  /\ qrOutcome = "generated" =>
       /\ \A i \in DOMAIN qrPayload : qrPayload[i] \notin {"+", "/", "="}
       /\ qrPayload = Base64Url(NoDashes(qrTransferId))

C22_Witness ==
  /\ qrOutcome = "generated"
  /\ qrTransferId = <<"a", "-", ">", ">">>
  /\ qrPayload = <<"Y", "T", "4", "-">>

\* The payload of every identifier.
PayloadOf == [id \in Identifiers |-> Base64TransferId(id)]

\* Every identifier without its dashes.
NoDashesOf == [id \in Identifiers |-> NoDashes(id)]

\* C23: the payload loses nothing but the dashes: the payloads of two
\* identifiers are equal if and only if the identifiers are equal once
\* their dashes are removed.
C23_PayloadLosesOnlyDashes ==
  qrOutcome = "generated" =>
    \A id \in Identifiers :
      (PayloadOf[id] = qrPayload) <=>
        (NoDashesOf[id] = NoDashesOf[qrTransferId])

C23_Witness ==
  /\ qrOutcome = "generated"
  /\ qrTransferId = <<"a", "-", "?", "?">>
  /\ qrPayload = PayloadOf[<<"a", "?", "-", "?">>]
  /\ qrPayload # PayloadOf[<<"a", "?", ">">>]

C25_EmptyIdentifierRejected ==
  (qrOutcome # "none" /\ qrTransferId = <<>>) => qrOutcome = "InvalidArgument"

\* The fixed texts with which the generic failure messages begin.
GenericFailureTexts == {"Failed to create payment", "Error creating transfer: "}

\* The response carries a message of the server.
HasServerMessage(response) ==
  response.body.json /\ response.body.message \notin {"undefined", ""}

\* C26: a call sends exactly one request and never retries; a response that
\* is not a success makes the call fail with the server-provided message
\* when the response has one and with a generic failure message otherwise;
\* a success response is returned as the record, unchanged.
C26_CreateTransferContract ==
  apiPhase = "settled" =>
    /\ apiRequests = 1
    /\ (~apiResponse.network /\ ~apiResponse.ok) =>
         /\ apiResult.tag = "rejected"
         /\ IF HasServerMessage(apiResponse)
            THEN apiResult.message = <<apiResponse.body.message>>
            ELSE apiResult.message[1] \in GenericFailureTexts
    /\ (~apiResponse.network /\ apiResponse.ok /\ apiResponse.body.json) =>
         apiResult = Resolved(apiResponse.body)

\* The statuses the specification calls terminal.
TerminalAnswers == {"COMPLETED", "FAILED", "CANCELLED"}

\* C27: the polling loop ends as soon as a poll returns COMPLETED, FAILED or
\* CANCELLED, and a stop of the session ends it: after either, no fetch is
\* issued and no timer is scheduled.
C27_PollingStopsLikeTheChannel ==
  [][/\ pollLast' \in TerminalAnswers => pollPhase' = "returned"
     /\ pollStopped => /\ pollFetches' = pollFetches
                       /\ pollTimers' = pollTimers]_vars

\* C28: two consecutive fetches are separated by one wait of the interval
\* (2000 ms when none is given): a response that does not end the loop
\* schedules exactly one timer and no fetch, the next fetch is issued by the
\* firing of that timer, and at most one fetch is outstanding.
C28_OneWaitBetweenFetches ==
  [][/\ pollOutstanding' <= 1
     /\ pollTimers' <= pollFetches'
     /\ (pollOutstanding' < pollOutstanding /\ pollPhase' # "returned") =>
          /\ pollFetches' = pollFetches
          /\ pollOutstanding' = 0
          /\ pollTimers' = pollTimers + 1
          /\ pollDelay' = (IF pollInterval = OmittedInterval
                           THEN DefaultInterval ELSE pollInterval)
     /\ (pollFetches' # pollFetches /\ pollFetches > 0) =>
          /\ pollFetches' = pollFetches + 1
          /\ pollPhase = "waiting"
          /\ pollTimers = pollFetches
          /\ pollDelay' = NoTimer
          /\ pollFetchedAt' - pollFetchedAt =
               (IF pollInterval = OmittedInterval
                THEN DefaultInterval ELSE pollInterval)]_vars

\* The second fetch of a call without an interval is issued 2000 ms after
\* the first, by the only timer scheduled.
C28_Witness ==
  /\ pollInterval = OmittedInterval
  /\ pollPhase = "fetching"
  /\ pollFetches = 2
  /\ pollTimers = 1
  /\ pollFetchedAt = 2000
  /\ pollLast = "PENDING"

\* The last step of the pair handled a status update.
StatusStep == calls' # <<>> /\ calls'[1][1] = "log"

\* C29: in the button that keeps IN_FLIGHT, a raw IN_FLIGHT event sets the
\* status to IN_FLIGHT, reports it through onStatusChange, invokes no
\* onSuccess and leaves the client and its channel as they are; a COMPLETED,
\* FAILED or CANCELLED event that follows is handled as the terminal
\* outcome: stored, reported, the channel closed and the client cleared.
C29_InFlightKeepsListening ==
  [][StatusStep =>
       LET e == calls'[1][2]
       IN  /\ e = "IN_FLIGHT" =>
                /\ transferStatus' = "IN_FLIGHT"
                /\ calls' = <<<<"log", e>>, <<"onStatusChange", "IN_FLIGHT">>>>
                /\ chan' = chan
                /\ disc' = disc
                /\ succ' = succ
                /\ zenobiaClient' = zenobiaClient
           /\ (transferStatus = "IN_FLIGHT" /\ e \in Terminal) =>
                /\ transferStatus' = e
                /\ calls'[Len(calls')] = <<"onStatusChange", e>>
                /\ ("onSuccess" \in Names(calls'))
                     <=> (e = "COMPLETED" /\ transferRequest # 0)
                /\ zenobiaClient # 0 =>
                     /\ <<"disconnect", zenobiaClient>> \in
                          {calls'[i] : i \in DOMAIN calls'}
                     /\ chan'[zenobiaClient] = 0
                /\ zenobiaClient' = 0]_vars

\* A COMPLETED event has been handled after an IN_FLIGHT event of the same
\* transfer: onSuccess was invoked once, by the COMPLETED event.
C29_Witness ==
  /\ variant = "buttonTooltip"
  /\ scenario[1] = 5
  /\ Handled("COMPLETED")
  /\ transferStatus = "COMPLETED"
  /\ transferRequest # 0
  /\ succ[transferRequest] = 1
  /\ zenobiaClient = 0
  /\ disc[scenario[2]] = 1
  /\ chan[scenario[2]] = 0

\* C30: the handling of a terminal status while the modal is open starts
\* nothing: no client is constructed, no create-transfer request is issued
\* and no channel is subscribed by that step.
C30_TerminalStartsNothing ==
  [][(StatusStep /\ isOpen /\ DerivedStatus(calls'[1][2]) \in Terminal) =>
       /\ Names(calls') \cap {"new", "createTransfer", "listenToTransfer"} = {}
       /\ nextClient' = nextClient
       /\ zenobiaClient' = 0]_vars

\* The raw statuses whose case invokes onSuccess.
SuccessStatuses == {"COMPLETED", "IN_FLIGHT"}

\* C31: onSuccess is invoked only by the handling of a COMPLETED or
\* IN_FLIGHT event; the handling of any other event invokes neither
\* onSuccess nor onError, and reports a FAILED or CANCELLED outcome through
\* onStatusChange.
C31_SuccessOnlyOnCompletion ==
  [][/\ "onSuccess" \in Names(calls') =>
          (StatusStep /\ calls'[1][2] \in SuccessStatuses)
     /\ (StatusStep /\ calls'[1][2] \notin SuccessStatuses) =>
          /\ Names(calls') \cap {"onSuccess", "onError"} = {}
          /\ succ' = succ
          /\ calls'[1][2] \in {"FAILED", "CANCELLED"} =>
               /\ transferStatus' = calls'[1][2]
               /\ \E i \in DOMAIN calls' :
                    calls'[i] = <<"onStatusChange", calls'[1][2]>>]_vars

\* A FAILED event has been handled while a record was stored: it was
\* reported through onStatusChange and the record's onSuccess count is 0.
C31_Witness ==
  /\ Handled("FAILED")
  /\ transferStatus = "FAILED"
  /\ transferRequest # 0
  /\ succ[transferRequest] = 0
  /\ <<"onStatusChange", "FAILED">> \in {calls[i] : i \in DOMAIN calls}

\* C32: whenever the handling of an event makes the derived status
\* COMPLETED, onSuccess is invoked by that handling, also when the event
\* arrives before the result of createTransferAndListen has been stored.
C32_SuccessNeverLost ==
  [][(StatusStep /\ transferStatus' = "COMPLETED") =>
       "onSuccess" \in Names(calls')]_vars

\* C33: every open channel is subscribed to the transfer of the current
\* TransferRecord, the one the QR code shows.
C33_TracksTheShownTransfer ==
  \A c \in Clients : chan[c] # 0 => chan[c] = transferRequest

\* C34: a button in its initial state (popup hidden, button enabled) leaves
\* it only by a click; no timer of an earlier click moves it to QR_VISIBLE.
C34_InitialUntilNextClick ==
  [][animationState = "INITIAL" => animationState' # "QR_VISIBLE"]_vars

\* The click whose creation request produced record t.
AttemptOf(t) == CHOOSE k \in Clients : ServerId(k) = t

\* C35: the 50 ms timer of handleClose clears only a record of the session
\* that was closed: a record stored by a click made after that close is not
\* cleared by it.
C35_ResetOnlyTheClosedSession ==
  [][(Len(resetTimers') < Len(resetTimers) /\ transferRequest # 0) =>
       AttemptOf(transferRequest) <= Head(resetTimers)]_vars

\* C36: isReconnecting is true only while isConnected is false, and it is
\* false after a connectivity change to connected, after the modal is
\* closed and after it is opened.
C36_ReconnectingOnlyWhileDisconnected ==
  [][/\ isReconnecting' => ~isConnected'
     /\ (~isConnected /\ isConnected') => ~isReconnecting'
     /\ isOpen' # isOpen => ~isReconnecting']_vars

\* C37: pollTransferStatus never rejects and never retries: a rejected
\* fetch, a response that is not ok or a body that is not JSON ends the loop
\* at once with the promise resolved, as a terminal status does, and once
\* the function has returned no fetch is issued and no timer is scheduled.
C37_PollErrorsEndQuietly ==
  [][/\ pollResult' # "rejected"
     /\ (pollLast' \in PollErrors /\ pollPhase = "fetching") =>
          /\ pollPhase' = "returned"
          /\ pollResult' = "resolved"
          /\ pollFetches' = pollFetches
          /\ pollTimers' = pollTimers
          /\ pollOutstanding' = 0
          /\ pollDelay' = NoTimer
     /\ pollPhase = "returned" =>
          /\ pollPhase' = "returned"
          /\ pollFetches' = pollFetches
          /\ pollTimers' = pollTimers
          /\ pollResult' = pollResult]_vars

\* The second fetch, issued after one wait, has failed: the function has
\* returned with its promise resolved.
C37_Witness ==
  /\ pollPhase = "returned"
  /\ pollLast = "not ok"
  /\ pollResult = "resolved"
  /\ pollFetches = 2
  /\ pollTimers = 1
  /\ pollOutstanding = 0
====
